---- MODULE Spec2Model ----
(***************************************************************************)
(* A model of the blog application of prabuddh-me: the BlogPage entity     *)
(* (src/blog/models.py), its save hook (reading time, cache invalidation), *)
(* its validation, its cached queries, the listing views                   *)
(* (src/blog/views.py) and the batch reading-time command.                 *)
(*                                                                         *)
(* Text is kept run-length encoded: a text is a sequence of runs           *)
(* [pat, n], where pat "w" stands for n non-whitespace characters, "s" for *)
(* n whitespace characters and "ws" for n repetitions of one               *)
(* non-whitespace character followed by one whitespace character.  This    *)
(* keeps 250-character intros and 400-word bodies small values while       *)
(* len(), str.split() and str.strip() are computed as Python computes them *)
(* on the expanded string.                                                 *)
(***************************************************************************)
EXTENDS Integers, Sequences, FiniteSets, TLC

VARIABLES store, cache, session, today, resp

vars == <<store, cache, session, today, resp>>

\* ------------------------------------------------------------------ text

Run(pat, n) == [pat |-> pat, n |-> n]

PatLen(pat) == IF pat = "ws" THEN 2 ELSE 1

RECURSIVE TextLen(_)
\* len(s): the number of characters of the expanded string
TextLen(t) ==
    IF t = <<>> THEN 0
    ELSE PatLen(Head(t).pat) * Head(t).n + TextLen(Tail(t))

RECURSIVE SplitFrom(_, _)
\* len(s.split()) scanning from the left; inWord: the previous character
\* is a non-whitespace character, so a following one continues its word
SplitFrom(t, inWord) ==
    IF t = <<>> THEN 0
    ELSE LET r == Head(t) IN
         IF r.n = 0 THEN SplitFrom(Tail(t), inWord)
         ELSE IF r.pat = "s" THEN SplitFrom(Tail(t), FALSE)
         ELSE IF r.pat = "w"
              THEN (IF inWord THEN 0 ELSE 1) + SplitFrom(Tail(t), TRUE)
         ELSE (IF inWord THEN r.n - 1 ELSE r.n) + SplitFrom(Tail(t), FALSE)

\* len(s.split()): the number of whitespace-delimited words
SplitCount(t) == SplitFrom(t, FALSE)

\* not s.strip(), on a string kept as its characters: no character of it
\* is a non-whitespace character
StripEmpty(chars) == \A i \in DOMAIN chars : chars[i] = " "

Max(a, b) == IF a >= b THEN a ELSE b

\* ------------------------------------------------------ content blocks

\* Field values of a StructValue: a Python str, a RichText object (which has
\* .source and is no str), or anything else (bool, int, image, None).
Str(t) == [t |-> "str", s |-> t]
RichText(t) == [t |-> "RichText", source |-> t]
Other == [t |-> "other"]

Word == <<Run("w", 4)>>
Words(n) == IF n = 0 THEN <<>> ELSE <<Run("ws", n - 1), Run("w", 1)>>

\* BaseHeadingBlock: heading_text, heading_level, alignment
HeadingBlock(text) ==
    [type |-> "heading", kind |-> "StructValue",
     items |-> <<Str(text), Str(Word), Str(Word)>>]

\* BaseRichTextBlock: text (RichTextBlock), alignment (choice)
TextBlock(text) ==
    [type |-> "text", kind |-> "StructValue",
     items |-> <<RichText(text), Str(Word)>>]

\* BaseSpacerBlock: height (choice)
SpacerBlock ==
    [type |-> "spacer", kind |-> "StructValue", items |-> <<Str(Word)>>]

\* BaseQuoteBlock: quote, author, author_title, style
QuoteBlock(quote, who) ==
    [type |-> "quote", kind |-> "StructValue",
     items |-> <<Str(quote), Str(who), Str(<<>>), Str(Word)>>]

\* BaseAuthorBioBlock: author_name, author_image, bio_text (RichTextBlock),
\* website_url, twitter_url, linkedin_url, github_url, email,
\* show_social_icons
AuthorBioBlock(name, bio) ==
    [type |-> "author_bio", kind |-> "StructValue",
     items |-> <<Str(name), Other, RichText(bio), Str(Word), Str(<<>>),
                 Str(<<>>), Str(<<>>), Str(<<>>), Other>>]

\* BaseRecentPostsBlock: title, number_of_posts, four booleans, layout_style
RecentPostsBlock(title) ==
    [type |-> "recent_posts", kind |-> "StructValue",
     items |-> <<Str(title), Other, Other, Other, Other, Other, Str(Word)>>]

RECURSIVE SumStrItems(_)
\* for key, value in block.value.items():
\*     if isinstance(value, str): word_count += len(value.split())
SumStrItems(items) ==
    IF items = <<>> THEN 0
    ELSE (IF Head(items).t = "str" THEN SplitCount(Head(items).s) ELSE 0)
         + SumStrItems(Tail(items))

\* the words one block of the body adds to word_count in BlogPage.save
BlockWords(b) ==
    IF b.kind = "RichText" THEN SplitCount(b.source)
    ELSE IF b.kind = "StructValue" THEN SumStrItems(b.items)
    ELSE 0

RECURSIVE BodyWords(_)
BodyWords(body) ==
    IF body = <<>> THEN 0
    ELSE BlockWords(Head(body)) + BodyWords(Tail(body))

WordsPerMinute == 200

\* word_count as BlogPage.save computes it
word_count(intro, body) == SplitCount(intro) + BodyWords(body)

\* self.estimated_reading_time = max(1, word_count // 200)
reading_time(intro, body) == Max(1, word_count(intro, body) \div WordsPerMinute)


\* ---------------------------------------------------------------- dates

Date(y, m, d) == [year |-> y, month |-> m, day |-> d]

\* a date field that holds None
NoDate == Date(0, 0, 0)

\* a > b on datetime.date values
DateAfter(a, b) ==
    \/ a.year > b.year
    \/ a.year = b.year /\ a.month > b.month
    \/ a.year = b.year /\ a.month = b.month /\ a.day > b.day

\* ---------------------------------------------------- fields and rules

IntroMaxLength == 250

AuthorMaxLength == 100

\* The validators of the declared fields (Model.clean_fields): author is a
\* CharField(max_length=100) that may not be blank, date a required
\* DateField, intro a CharField(max_length=250, blank=True).
clean_fields(self) ==
    {k \in {"author"} : self.author = <<>> \/ Len(self.author) > AuthorMaxLength}
    \cup {k \in {"date"} : self.date = NoDate}
    \cup {k \in {"intro"} : TextLen(self.intro) > IntroMaxLength}

\* BlogPage.clean with the future-date rule left out: a plausible slip
clean_without_date_rule(self, now_date) ==
    {k \in {"intro"} : TextLen(self.intro) > IntroMaxLength}
    \cup {k \in {"estimated_reading_time"} : self.estimated_reading_time < 0}
    \cup {k \in {"author"} : self.author = <<>> \/ StripEmpty(self.author)}

\* BlogPage.clean with an off-by-one intro rule: a plausible slip
clean_intro_off_by_one(self, now_date) ==
    {k \in {"intro"} : TextLen(self.intro) >= IntroMaxLength}
    \cup {k \in {"estimated_reading_time"} : self.estimated_reading_time < 0}
    \cup {k \in {"date"} : self.date # NoDate /\ DateAfter(self.date, now_date)}
    \cup {k \in {"author"} : self.author = <<>> \/ StripEmpty(self.author)}

\* BlogPage.clean raising at the first broken rule instead of collecting
\* them: a plausible slip
clean_first_error_only(self, now_date) ==
    IF TextLen(self.intro) > IntroMaxLength THEN {"intro"}
    ELSE IF self.estimated_reading_time < 0 THEN {"estimated_reading_time"}
    ELSE IF self.date # NoDate /\ DateAfter(self.date, now_date) THEN {"date"}
    ELSE IF self.author = <<>> \/ StripEmpty(self.author) THEN {"author"}
    ELSE {}

\* BlogPage.clean: the keys of the ValidationError it raises, {} when it
\* raises none.  now_date is timezone.now().date().
clean(self, now_date) ==
    {k \in {"intro"} : TextLen(self.intro) > IntroMaxLength}
    \cup {k \in {"estimated_reading_time"} : self.estimated_reading_time < 0}
    \cup {k \in {"date"} : self.date # NoDate /\ DateAfter(self.date, now_date)}
    \cup {k \in {"author"} : self.author = <<>> \/ StripEmpty(self.author)}

\* Page.save(clean=True) runs full_clean before it writes: the field
\* validators, then clean().
full_clean(self, now_date) == clean_fields(self) \cup clean(self, now_date)

\* ---------------------------------------------------------------- cache

NoneId == 0

NoArg == 0 - 1

\* f'blog_recent_posts_{limit}', f'blog_featured_posts_{limit}',
\* f'blog_related_posts_{id}'; a key spelled without an argument carries NoArg
Key(name, arg) == <<name, arg>>

cache_delete(c, keys) ==
    IF (DOMAIN c) \ keys = {} THEN <<>> ELSE [k \in (DOMAIN c) \ keys |-> c[k]]

cache_set(c, key, value) ==
    [k \in (DOMAIN c) \cup {key} |-> IF k = key THEN value ELSE c[k]]

\* ---------------------------------------------------------------- store

Min(a, b) == IF a <= b THEN a ELSE b

\* seq[:n]
Take(seq, n) == SubSeq(seq, 1, Min(n, Len(seq)))

SeqSet(seq) == {seq[i] : i \in DOMAIN seq}

\* BlogPage.objects.live().public()
LivePublic(s) == {p \in DOMAIN s : s[p].live /\ s[p].public}

\* the post of the non-empty set S of store s that was published last
LastPublished(s, S) ==
    CHOOSE x \in S : \A y \in S :
        s[x].first_published_at >= s[y].first_published_at

RECURSIVE OrderByPublished(_, _)
\* order_by('-first_published_at') of the posts S of store s
OrderByPublished(s, S) ==
    IF S = {} THEN <<>>
    ELSE LET m == LastPublished(s, S)
         IN <<m>> \o OrderByPublished(s, S \ {m})

\* a publish time later than every one in the store
NextStamp(s) ==
    1 + Cardinality({p \in DOMAIN s : s[p].first_published_at > 0})

NewId(s) == 1 + Cardinality(DOMAIN s)


Put(s, pk, row) == [k \in (DOMAIN s) \cup {pk} |-> IF k = pk THEN row ELSE s[k]]

\* BlogPage.save without its cache.delete calls: a plausible slip
save_without_invalidation(s, c, self, now_date) ==
    LET self1 == [self EXCEPT !.estimated_reading_time =
                                  reading_time(self.intro, self.body)]
        errors == full_clean(self1, now_date)
        pk == IF self.id = NoneId THEN NewId(s) ELSE self.id
    IN [store |-> IF errors = {} THEN Put(s, pk, [self1 EXCEPT !.id = pk]) ELSE s,
        cache |-> c,
        errors |-> errors,
        id |-> IF errors = {} THEN pk ELSE self.id,
        word_count |-> word_count(self.intro, self.body)]

\* BlogPage.save on the instance self, against store s and cache c: the
\* reading time is recomputed, three cache keys are deleted, then Page.save
\* validates and writes.  A validation error is re-raised and nothing is
\* written, the cache keys staying deleted.
save(s, c, self, now_date) ==
    LET self1 == [self EXCEPT !.estimated_reading_time =
                                  reading_time(self.intro, self.body)]
        c1 == cache_delete(c, {Key("blog_related_posts_", self.id),
                               Key("blog_posts_by_tag", NoArg),
                               Key("blog_recent_posts", NoArg)})
        errors == full_clean(self1, now_date)
        pk == IF self.id = NoneId THEN NewId(s) ELSE self.id
    IN [store |-> IF errors = {} THEN Put(s, pk, [self1 EXCEPT !.id = pk]) ELSE s,
        cache |-> c1,
        errors |-> errors,
        id |-> IF errors = {} THEN pk ELSE self.id,
        word_count |-> word_count(self.intro, self.body)]

\* The instance the editor hands to save: a new one (p = NoneId) or row p
\* of the store, with the form data d; publishing for the first time
\* stamps first_published_at.
Instance(s, p, d) ==
    LET was == IF p = NoneId THEN 0 ELSE s[p].first_published_at
        ert == IF p = NoneId THEN 0 ELSE s[p].estimated_reading_time
    IN [id |-> p, slug |-> d.slug, author |-> d.author, date |-> d.date,
        intro |-> d.intro, body |-> d.body, tags |-> d.tags,
        featured |-> d.featured, show_related_posts |-> d.show_related_posts,
        live |-> d.live, public |-> d.public,
        first_published_at |-> IF d.live /\ was = 0 THEN NextStamp(s) ELSE was,
        estimated_reading_time |-> ert]

\* -------------------------------------------------------------- actions

\* a post is created (p = NoneId) or edited, and saved
SavePost(p, d) ==
    LET r == save(store, cache, Instance(store, p, d), today)
    IN /\ store' = r.store
       /\ cache' = r.cache
       /\ resp' = [op |-> "save", id |-> r.id, errors |-> r.errors,
                   word_count |-> r.word_count]
       /\ UNCHANGED <<session, today>>

\* BlogPage.get_recent_posts(limit)
get_recent_posts(limit) ==
    LET cache_key == Key("blog_recent_posts_", limit)
        posts == IF cache_key \in DOMAIN cache THEN cache[cache_key]
                 ELSE Take(OrderByPublished(store, LivePublic(store)), limit)
    IN /\ cache' = IF cache_key \in DOMAIN cache THEN cache
                   ELSE cache_set(cache, cache_key, posts)
       /\ resp' = [op |-> "get_recent_posts", limit |-> limit, posts |-> posts]
       /\ UNCHANGED <<store, session, today>>

\* BlogPage.get_featured_posts(limit)
get_featured_posts(limit) ==
    LET cache_key == Key("blog_featured_posts_", limit)
        posts == IF cache_key \in DOMAIN cache THEN cache[cache_key]
                 ELSE Take(OrderByPublished(store,
                          {p \in LivePublic(store) : store[p].featured}), limit)
    IN /\ cache' = IF cache_key \in DOMAIN cache THEN cache
                   ELSE cache_set(cache, cache_key, posts)
       /\ resp' = [op |-> "get_featured_posts", limit |-> limit, posts |-> posts]
       /\ UNCHANGED <<store, session, today>>

\* BlogPage.get_posts_by_tag(tag_name, limit): limit 0 stands for a limit
\* that is None or 0, which does not slice
get_posts_by_tag(tag_name, limit) ==
    LET posts == OrderByPublished(store,
                     {p \in LivePublic(store) : tag_name \in store[p].tags})
    IN /\ resp' = [op |-> "get_posts_by_tag", tag_name |-> tag_name, limit |-> limit,
                   posts |-> IF limit # 0 THEN Take(posts, limit) ELSE posts]
       /\ UNCHANGED <<store, cache, session, today>>

RelatedLimit == 3

\* the rows of posts joined with their tags that
\* live().public().exclude(id=p).filter(tags__in=p.tags.all()) selects: one
\* row per post and shared tag
related_rows(s, p) ==
    {r \in (LivePublic(s) \ {p}) \X s[p].tags : r[2] \in s[r[1]].tags}

RECURSIVE OrderRows(_, _)
\* the posts of the rows R, one per row, newest first
OrderRows(s, R) ==
    IF R = {} THEN <<>>
    ELSE LET m == CHOOSE x \in R : \A y \in R :
                      s[x[1]].first_published_at >= s[y[1]].first_published_at
         IN <<m[1]>> \o OrderRows(s, R \ {m})

\* a query without .distinct(): a post is listed once per shared tag
keep_duplicates(seq) == seq

RECURSIVE distinct(_)
\* .distinct(): each post once
distinct(seq) ==
    IF seq = <<>> THEN <<>>
    ELSE <<Head(seq)>> \o distinct(SelectSeq(Tail(seq), LAMBDA x : x # Head(seq)))

\* the related-posts query of get_context, evaluated on store s for post p
related_query(s, p) ==
    Take(distinct(OrderRows(s, related_rows(s, p))), RelatedLimit)

\* BlogPage.get_context with the two neighbours taken from the wrong
\* sides: a plausible slip
get_context_swapped(p) ==
    LET self == store[p]
        wants == self.show_related_posts /\ self.tags # {}
        cache_key == Key("blog_related_posts_", p)
        hit == cache_key \in DOMAIN cache
        related_posts == IF hit THEN cache[cache_key] ELSE related_query(store, p)
        post_list == OrderByPublished(store, LivePublic(store))
        idx == IF p \in SeqSet(post_list)
               THEN CHOOSE i \in DOMAIN post_list : post_list[i] = p ELSE 0
        keys == {k \in {"related_posts"} : wants}
                \cup {k \in {"next_post"} : idx > 0 /\ idx < Len(post_list)}
                \cup {k \in {"prev_post"} : idx > 1}
    IN /\ cache' = IF wants /\ ~hit THEN cache_set(cache, cache_key, related_posts)
                   ELSE cache
       /\ resp' = [op |-> "get_context", id |-> p, keys |-> keys,
                   cached |-> wants /\ hit,
                   related_posts |-> IF wants THEN related_posts ELSE <<>>,
                   prev_post |-> IF "prev_post" \in keys THEN post_list[idx - 1] ELSE NoneId,
                   next_post |-> IF "next_post" \in keys THEN post_list[idx + 1] ELSE NoneId]
       /\ UNCHANGED <<store, session, today>>

\* BlogPage.get_context of post p: related_posts (cached per post id),
\* prev_post and next_post; a key that is not set is not in the context
get_context(p) ==
    LET self == store[p]
        wants == self.show_related_posts /\ self.tags # {}
        cache_key == Key("blog_related_posts_", p)
        hit == cache_key \in DOMAIN cache
        related_posts == IF hit THEN cache[cache_key] ELSE related_query(store, p)
        post_list == OrderByPublished(store, LivePublic(store))
        idx == IF p \in SeqSet(post_list)
               THEN CHOOSE i \in DOMAIN post_list : post_list[i] = p ELSE 0
        keys == {k \in {"related_posts"} : wants}
                \cup {k \in {"prev_post"} : idx > 0 /\ idx < Len(post_list)}
                \cup {k \in {"next_post"} : idx > 1}
    IN /\ cache' = IF wants /\ ~hit THEN cache_set(cache, cache_key, related_posts)
                   ELSE cache
       /\ resp' = [op |-> "get_context", id |-> p, keys |-> keys,
                   cached |-> wants /\ hit,
                   related_posts |-> IF wants THEN related_posts ELSE <<>>,
                   prev_post |-> IF "prev_post" \in keys THEN post_list[idx + 1] ELSE NoneId,
                   next_post |-> IF "next_post" \in keys THEN post_list[idx - 1] ELSE NoneId]
       /\ UNCHANGED <<store, session, today>>

\* a cache entry reaches its timeout (15 minutes) and is dropped
Expire(key) ==
    /\ key \in DOMAIN cache
    /\ cache' = cache_delete(cache, {key})
    /\ resp' = [op |-> "expire"]
    /\ UNCHANGED <<store, session, today>>

\* the calendar date moves on
Tick(d) ==
    /\ DateAfter(d, today)
    /\ today' = d
    /\ resp' = [op |-> "tick"]
    /\ UNCHANGED <<store, cache, session>>


\* round(word_count / 200): Python rounds a half to the even neighbour
round_div(n, d) ==
    LET q == n \div d
        r == n % d
    IN IF 2 * r < d THEN q
       ELSE IF 2 * r > d THEN q + 1
       ELSE IF q % 2 = 0 THEN q ELSE q + 1

\* new_time of the batch command for one post
batch_time(post) ==
    Max(1, round_div(word_count(post.intro, post.body), WordsPerMinute))

RECURSIVE batch(_, _, _, _, _, _)
\* the loop of Command.handle over the posts ids (in queryset order): a
\* post whose stored time differs from new_time is reported and, unless
\* dry_run, assigned new_time and saved with BlogPage.save; an exception
\* of save, a validation error or an error of the database (which strikes
\* the posts of failing), is not caught and ends the command
batch(ids, s, c, dry_run, now_date, failing) ==
    IF ids = <<>> THEN [store |-> s, cache |-> c, report |-> {}, raised |-> FALSE]
    ELSE LET post == s[Head(ids)]
             old_time == post.estimated_reading_time
             new_time == batch_time(post)
             line == <<post.id, old_time, new_time>>
         IN IF old_time = new_time
            THEN batch(Tail(ids), s, c, dry_run, now_date, failing)
            ELSE IF dry_run
            THEN LET rest == batch(Tail(ids), s, c, dry_run, now_date, failing)
                 IN [rest EXCEPT !.report = @ \cup {line}]
            ELSE LET r == save(s, c, [post EXCEPT !.estimated_reading_time = new_time],
                               now_date)
                 IN IF r.errors # {} \/ post.id \in failing
                    THEN [store |-> s, cache |-> r.cache,
                          report |-> {line}, raised |-> TRUE]
                    ELSE LET rest == batch(Tail(ids), r.store, r.cache, dry_run,
                                           now_date, failing)
                         IN [rest EXCEPT !.report = @ \cup {line}]

\* the command writing whether or not --dry-run is given: a plausible slip
Recalculate_ignoring_dry_run(dry_run, failing) ==
    LET r == batch(OrderByPublished(store, DOMAIN store), store, cache, FALSE, today,
                   failing)
    IN /\ store' = r.store
       /\ cache' = r.cache
       /\ resp' = [op |-> "recalculate", dry_run |-> dry_run,
                   report |-> r.report, raised |-> r.raised]
       /\ UNCHANGED <<session, today>>

\* manage.py recalculate_reading_times [--dry-run]; failing are the posts
\* whose write the database turns down during the run
Recalculate(dry_run, failing) ==
    LET r == batch(OrderByPublished(store, DOMAIN store), store, cache, dry_run, today,
                   failing)
    IN /\ store' = r.store
       /\ cache' = r.cache
       /\ resp' = [op |-> "recalculate", dry_run |-> dry_run,
                   report |-> r.report, raised |-> r.raised]
       /\ UNCHANGED <<session, today>>

\* ------------------------------------------------------------ inputs

MaxPosts == 2

MaxLimit == 1

Limits == 1..MaxLimit

Today0 == Date(2025, 10, 19)

HelloWorld == <<Run("w", 5), Run("s", 1), Run("w", 5)>>

\* author names and slugs are kept as their characters
TestAuthor == <<"A", "l", " ", "B", "o">>

TestSlug == <<"p", "o", "s", "t">>

PostData(intros, bodies, authors, dates, tagsets, flags, lives) ==
    [slug : {TestSlug}, author : authors, date : dates, intro : intros,
     body : bodies, tags : tagsets, featured : flags,
     show_related_posts : {TRUE}, live : lives, public : {TRUE}]

\* the state of a fresh installation: no post, nothing cached, no session
Init ==
    /\ store = <<>>
    /\ cache = <<>>
    /\ session = <<>>
    /\ today = Today0
    /\ resp = [op |-> "init"]

CanSave(p) == p = NoneId => Cardinality(DOMAIN store) < MaxPosts

\* ------------------------------------- recent posts (SpecRecent)


NextRecent ==
    \/ \E p \in (DOMAIN store) \cup {NoneId},
          d \in PostData({HelloWorld}, {<<>>}, {TestAuthor}, {Today0}, {{}},
                         {FALSE}, BOOLEAN) :
          CanSave(p) /\ SavePost(p, d)
    \/ \E limit \in Limits : get_recent_posts(limit)
    \/ \E key \in DOMAIN cache : Expire(key)

SpecRecent == Init /\ [][NextRecent]_vars

\* C3: a recent-posts result is never older than the last save: what
\* get_recent_posts(limit) returns is the recent-posts query of the store as
\* it is now (only saves change the store).
RecentServedFresh ==
    resp.op = "get_recent_posts" =>
        resp.posts = Take(OrderByPublished(store, LivePublic(store)), resp.limit)

\* ---------------------------------- featured posts (SpecFeatured)


NextFeatured ==
    \/ \E p \in (DOMAIN store) \cup {NoneId},
          d \in PostData({HelloWorld}, {<<>>}, {TestAuthor}, {Today0}, {{}},
                         BOOLEAN, BOOLEAN) :
          CanSave(p) /\ SavePost(p, d)
    \/ \E limit \in Limits : get_featured_posts(limit)
    \/ \E key \in DOMAIN cache : Expire(key)

SpecFeatured == Init /\ [][NextFeatured]_vars

\* C4: a featured-posts result is never older than the last save: what
\* get_featured_posts(limit) returns is the featured-posts query of the
\* store as it is now.
FeaturedServedFresh ==
    resp.op = "get_featured_posts" =>
        resp.posts = Take(OrderByPublished(store,
                             {p \in LivePublic(store) : store[p].featured}),
                          resp.limit)


\* ------------------------------ related posts per post (SpecRelKey)

RelKeyData ==
    PostData({HelloWorld}, {<<>>}, {TestAuthor}, {Today0}, {{}, {"a"}}, {FALSE}, {TRUE})
    \cup PostData({HelloWorld}, {<<>>}, {TestAuthor}, {Today0}, {{"a"}}, {FALSE}, {FALSE})

NextRelKey ==
    \/ \E p \in (DOMAIN store) \cup {NoneId}, d \in RelKeyData :
          CanSave(p) /\ SavePost(p, d)
    \/ \E p \in DOMAIN store : get_context(p)
    \/ \E key \in DOMAIN cache : Expire(key)

SpecRelKey == Init /\ [][NextRelKey]_vars

RelatedKey(p) == Key("blog_related_posts_", p)

\* C5: the related-posts entry is keyed by the post and invalidated by
\* every save of that post alone.  In every step: a save of P leaves no
\* entry of P and leaves every other entry as it was; an entry of P appears
\* only by a get_context of P; and a get_context of P that finds no entry
\* returns the related-posts query of the store.
RelatedInvalidatedBySave ==
    [][/\ resp'.op = "save" =>
            /\ RelatedKey(resp'.id) \notin DOMAIN cache'
            /\ \A k \in DOMAIN cache : k # RelatedKey(resp'.id) =>
                   k \in DOMAIN cache' /\ cache'[k] = cache[k]
       /\ \A k \in (DOMAIN cache') \ (DOMAIN cache) :
            resp'.op = "get_context" /\ k = RelatedKey(resp'.id)
       /\ (/\ resp'.op = "get_context"
           /\ "related_posts" \in resp'.keys
           /\ RelatedKey(resp'.id) \notin DOMAIN cache) =>
            resp'.related_posts = related_query(store', resp'.id)]_vars

\* a save of one post has completed while the result of another is cached
RelatedInvalidatedWitness ==
    /\ resp.op = "save"
    /\ resp.errors = {}
    /\ \E q \in DOMAIN store :
          /\ q # resp.id
          /\ RelatedKey(q) \in DOMAIN cache
          /\ resp.id \in SeqSet(cache[RelatedKey(q)])


\* ------------------------------- related posts listing (SpecRelated)

\* enough posts for the related-posts limit to cut
NumRelated == RelatedLimit + 2

MaxViewed == 1

BothTags == {"a", "b"}

RelatedData ==
    PostData({HelloWorld}, {<<>>}, {TestAuthor}, {Today0}, {{}, BothTags}, {FALSE}, {TRUE})

\* NumRelated posts, published one after the other, all tagged a and b
RelatedStore ==
    [p \in 1..NumRelated |->
        [id |-> p, slug |-> TestSlug, author |-> TestAuthor, date |-> Today0,
         intro |-> HelloWorld, body |-> <<>>, tags |-> BothTags,
         featured |-> FALSE, show_related_posts |-> TRUE, live |-> TRUE,
         public |-> TRUE, first_published_at |-> p,
         estimated_reading_time |-> 1]]

InitRelated ==
    /\ store = RelatedStore
    /\ cache = <<>>
    /\ session = <<>>
    /\ today = Today0
    /\ resp = [op |-> "init"]

NextRelated ==
    \/ \E p \in DOMAIN store, d \in RelatedData : SavePost(p, d)
    \/ \E p \in 1..MaxViewed : get_context(p)
    \/ \E key \in DOMAIN cache : Expire(key)

SpecRelated == InitRelated /\ [][NextRelated]_vars

NoDuplicates(seq) == \A i, j \in DOMAIN seq : seq[i] = seq[j] => i = j

NewestFirst(seq) ==
    \A i, j \in DOMAIN seq :
        i < j => store[seq[i]].first_published_at >= store[seq[j]].first_published_at

SharesTag(p, q) == store[p].tags \cap store[q].tags # {}

\* C7 as claimed: the related_posts of a context never holds the post
\* itself, holds at most 3 posts, none twice, only posts that share a tag
\* with the post, newest first.
RelatedContract ==
    (resp.op = "get_context" /\ "related_posts" \in resp.keys) =>
        /\ resp.id \notin SeqSet(resp.related_posts)
        /\ Len(resp.related_posts) <= 3
        /\ NoDuplicates(resp.related_posts)
        /\ \A q \in SeqSet(resp.related_posts) : SharesTag(resp.id, q)
        /\ NewestFirst(resp.related_posts)

\* C7 as amended: the related_posts of a context never holds the post
\* itself, holds at most 3 posts, none twice, newest first; when it is
\* computed by this request rather than served from the cache, it holds only
\* posts that share a tag with the post.
RelatedContractWhenComputed ==
    (resp.op = "get_context" /\ "related_posts" \in resp.keys) =>
        /\ resp.id \notin SeqSet(resp.related_posts)
        /\ Len(resp.related_posts) <= 3
        /\ NoDuplicates(resp.related_posts)
        /\ ~resp.cached => \A q \in SeqSet(resp.related_posts) : SharesTag(resp.id, q)
        /\ NewestFirst(resp.related_posts)

\* a context whose related posts were cut at the limit
RelatedContractWitness ==
    /\ resp.op = "get_context"
    /\ "related_posts" \in resp.keys
    /\ Len(resp.related_posts) = 3
    /\ Cardinality({q \in DOMAIN store : q # resp.id /\ SharesTag(resp.id, q)}) > 3


\* ------------------------------ editing and reading time (SpecEdit)

\* 250 characters in 125 words
Intro250 == <<Run("ws", 124), Run("w", 2)>>

Intro251 == <<Run("w", 251)>>

BlankAuthor == <<" ", " ">>

Tomorrow == Date(2025, 10, 20)

EditBodies ==
    { <<>>,
      <<TextBlock(Words(400))>>,
      <<HeadingBlock(Words(296))>>,
      <<AuthorBioBlock(Words(2), Words(200)), QuoteBlock(Words(395), Words(2))>> }

\* valid posts of every intro and body, and one form for each rule a post
\* can break: a 251-character intro, a future date, a blank or empty author
EditData ==
    PostData({HelloWorld}, EditBodies, {TestAuthor}, {Today0}, {{}}, {FALSE}, {TRUE})
    \cup PostData({Intro250}, {<<>>}, {TestAuthor}, {Today0}, {{}}, {FALSE}, {TRUE})
    \cup PostData({Intro251}, {<<>>}, {TestAuthor}, {Today0}, {{}}, {FALSE}, {TRUE})
    \cup PostData({Intro250}, {<<>>}, {TestAuthor}, {Tomorrow}, {{}}, {FALSE}, {TRUE})
    \cup PostData({HelloWorld}, {<<>>}, {BlankAuthor, <<>>}, {Today0}, {{}}, {FALSE}, {TRUE})

NextEdit ==
    \/ \E p \in (DOMAIN store) \cup {NoneId}, d \in EditData :
          CanSave(p) /\ SavePost(p, d)
    \/ \E dry_run \in BOOLEAN : Recalculate(dry_run, {})
    \/ Tick(Tomorrow)

SpecEdit == Init /\ [][NextEdit]_vars

RECURSIVE TextBearingWords(_)
\* the words of the string fields and of the rich-text fields of a block
TextBearingWords(items) ==
    IF items = <<>> THEN 0
    ELSE (IF Head(items).t = "str" THEN SplitCount(Head(items).s)
          ELSE IF Head(items).t = "RichText" THEN SplitCount(Head(items).source)
          ELSE 0)
         + TextBearingWords(Tail(items))

RECURSIVE ClaimedBodyWords(_)
ClaimedBodyWords(body) ==
    IF body = <<>> THEN 0
    ELSE TextBearingWords(Head(body).items) + ClaimedBodyWords(Tail(body))

\* C1: every stored post has the reading time max(1, W // 200), W the words
\* of the intro and of every text-bearing field of every block.
ReadingTimeOfAllText ==
    \A p \in DOMAIN store :
        store[p].estimated_reading_time =
            Max(1, (SplitCount(store[p].intro) + ClaimedBodyWords(store[p].body)) \div 200)

\* C2: the word count of a save holds, for every block, the words of its
\* rich text and of its string fields.
SaveCountsRichText ==
    (resp.op = "save" /\ resp.errors = {}) =>
        resp.word_count >=
            SplitCount(store[resp.id].intro) + ClaimedBodyWords(store[resp.id].body)

\* C9: every stored post has a reading time of at least 1, a date that is
\* not in the future, an intro of at most 250 characters and an author name
\* that is not empty.
StoredPostsValid ==
    \A p \in DOMAIN store :
        /\ store[p].estimated_reading_time >= 1
        /\ ~DateAfter(store[p].date, today)
        /\ TextLen(store[p].intro) <= 250
        /\ store[p].author # <<>> /\ ~StripEmpty(store[p].author)

\* the batch has rewritten a post while a 250-character intro is stored and
\* an invalid save was turned down before
StoredPostsValidWitness ==
    /\ resp.op = "recalculate"
    /\ ~resp.dry_run
    /\ resp.report # {}
    /\ \E p \in DOMAIN store : TextLen(store[p].intro) = 250 /\ store[p].date = Tomorrow


\* ------------------------------------------- validation (SpecClean)


\* the instances clean() is called on: every intro length around the
\* limit, with valid and invalid other fields
CleanInstances ==
    [id : {NoneId}, slug : {TestSlug}, author : {TestAuthor, BlankAuthor, <<>>},
     date : {(Date(2025, 10, 18)), Today0, Tomorrow},
     intro : {<<>>, HelloWorld, <<Run("w", 249)>>, Intro250, Intro251, <<Run("w", 300)>>},
     body : {<<>>}, tags : {{}}, featured : {FALSE}, show_related_posts : {TRUE},
     live : {FALSE}, public : {TRUE}, first_published_at : {0},
     estimated_reading_time : {0 - 1, 0, 1}]

\* blog_post.clean() on an instance that is not saved
CleanPost(self) ==
    /\ resp' = [op |-> "clean", self |-> self, errors |-> clean(self, today)]
    /\ UNCHANGED <<store, cache, session, today>>

NextClean ==
    \/ \E self \in CleanInstances : CleanPost(self)
    \/ Tick(Tomorrow)

SpecClean == Init /\ [][NextClean]_vars

\* C10: clean fails with an error keyed intro for every intro longer than
\* 250 characters, and passes an intro of exactly 250 characters when the
\* other fields are valid.
CleanIntroLimit ==
    resp.op = "clean" =>
        /\ TextLen(resp.self.intro) > 250 => "intro" \in resp.errors
        /\ (/\ TextLen(resp.self.intro) = 250
            /\ resp.self.estimated_reading_time >= 0
            /\ ~DateAfter(resp.self.date, today)
            /\ ~StripEmpty(resp.self.author)) => resp.errors = {}

\* an intro of exactly 250 characters has passed
CleanIntroLimitWitness ==
    /\ resp.op = "clean"
    /\ TextLen(resp.self.intro) = 250
    /\ resp.errors = {}

\* the rules of the post that clean() was called on which are broken
ViolatedRules ==
    LET self == resp.self
    IN {k \in {"intro", "date", "author", "estimated_reading_time"} :
           \/ k = "intro" /\ TextLen(self.intro) > 250
           \/ k = "date" /\ DateAfter(self.date, today)
           \/ k = "author" /\ \A i \in DOMAIN self.author : self.author[i] = " "
           \/ k = "estimated_reading_time" /\ self.estimated_reading_time < 0}

\* C11: clean raises one validation error whose keys are exactly the broken
\* rules among intro, date, author and estimated_reading_time, all of them
\* together, and raises nothing when no rule is broken.
CleanReportsAllViolations ==
    resp.op = "clean" => resp.errors = ViolatedRules

\* a post that breaks all four rules got all four keys in one error
CleanReportsAllViolationsWitness ==
    /\ resp.op = "clean"
    /\ Cardinality(ViolatedRules) = 4
    /\ Cardinality(resp.errors) = 4


\* ------------------------------------------------- URLs (SpecUrl)

DigitChars == <<"0", "1", "2", "3", "4", "5", "6", "7", "8", "9">>

RECURSIVE Decimal(_)
\* str(n) of an integer n >= 0, as its characters
Decimal(n) ==
    IF n < 10 THEN <<DigitChars[n + 1]>>
    ELSE Decimal(n \div 10) \o <<DigitChars[(n % 10) + 1]>>

RECURSIVE ZeroPad(_, _)
ZeroPad(chars, width) ==
    IF Len(chars) >= width THEN chars ELSE ZeroPad(<<"0">> \o chars, width)

\* f"{n:0{width}d}"
FormatD(n, width) == ZeroPad(Decimal(n), width)

\* f"{year:04d}/{month:02d}/{day:02d}/{slug}/"
date_path(self) ==
    FormatD(self.date.year, 4) \o <<"/">> \o FormatD(self.date.month, 2) \o <<"/">>
    \o FormatD(self.date.day, 2) \o <<"/">> \o self.slug \o <<"/">>

\* BlogPage.get_date_url
get_date_url(self) == <<"/">> \o date_path(self)

\* Page.get_url_parts returning None
NoParts == [none |-> TRUE, site_id |-> 0, root_url |-> <<>>, page_path |-> <<>>]

\* get_url_parts that hands on what Page.get_url_parts returns: a
\* plausible slip
get_url_parts_of_tree(self, url_parts) == url_parts

\* BlogPage.get_url_parts, url_parts being what Page.get_url_parts returns
get_url_parts(self, url_parts) ==
    IF url_parts.none THEN NoParts
    ELSE [none |-> FALSE, site_id |-> url_parts.site_id,
          root_url |-> url_parts.root_url, page_path |-> date_path(self)]

\* what Page.get_url_parts returns for a page with the given slug whose
\* parent has the path parent_path under the root of site 1
TreeParts(parent_path, slug) ==
    [none |-> FALSE, site_id |-> 1, root_url |-> <<"h", ":">>,
     page_path |-> parent_path \o slug \o <<"/">>]

\* the positions a post can have: outside every site, under the site root,
\* under a home page that is a child of the site root
TreePositions(slug) ==
    {NoParts, TreeParts(<<"/">>, slug), TreeParts(<<"/", "h", "/">>, slug)}

\* the URL of post p is resolved: get_date_url, and get_url_parts (whose
\* page path is what Page.get_url returns on a single site)
ResolveUrl(p, url_parts) ==
    /\ resp' = [op |-> "url", id |-> p, default |-> url_parts,
                date_url |-> get_date_url(store[p]),
                url_parts |-> get_url_parts(store[p], url_parts)]
    /\ UNCHANGED <<store, cache, session, today>>

ShortSlug == <<"a">>

UrlData ==
    {[d EXCEPT !.slug = slug] :
        d \in PostData({HelloWorld}, {<<>>}, {TestAuthor},
                       {Today0, Date(2025, 1, 5), Date(987, 12, 31)},
                       {{}}, {FALSE}, {TRUE}),
        slug \in {TestSlug, ShortSlug}}

NextUrl ==
    \/ \E p \in (DOMAIN store) \cup {NoneId}, d \in UrlData :
          CanSave(p) /\ SavePost(p, d)
    \/ \E p \in DOMAIN store : \E url_parts \in TreePositions(store[p].slug) :
          ResolveUrl(p, url_parts)

SpecUrl == Init /\ [][NextUrl]_vars

RECURSIVE DigitsValue(_)
DigitsValue(chars) ==
    IF chars = <<>> THEN 0
    ELSE 10 * DigitsValue(SubSeq(chars, 1, Len(chars) - 1))
         + (CHOOSE i \in DOMAIN DigitChars : DigitChars[i] = chars[Len(chars)]) - 1

AllDigits(chars) ==
    \A i \in DOMAIN chars : \E k \in DOMAIN DigitChars : DigitChars[k] = chars[i]

\* path reads /YYYY/MM/DD/slug/ with the date and the slug of post
IsDatePath(path, post) ==
    /\ Len(path) = 13 + Len(post.slug)
    /\ path[1] = "/" /\ path[6] = "/" /\ path[9] = "/" /\ path[12] = "/"
    /\ path[Len(path)] = "/"
    /\ AllDigits(SubSeq(path, 2, 5)) /\ DigitsValue(SubSeq(path, 2, 5)) = post.date.year
    /\ AllDigits(SubSeq(path, 7, 8)) /\ DigitsValue(SubSeq(path, 7, 8)) = post.date.month
    /\ AllDigits(SubSeq(path, 10, 11)) /\ DigitsValue(SubSeq(path, 10, 11)) = post.date.day
    /\ SubSeq(path, 13, Len(path) - 1) = post.slug

\* C6: the resolved path of every post is /YYYY/MM/DD/slug/, both as
\* get_date_url gives it and as the page path of get_url_parts, whatever the
\* position of the post in the tree.
ResolvedPathIsDatePath ==
    resp.op = "url" =>
        /\ IsDatePath(resp.date_url, store[resp.id])
        /\ ~resp.url_parts.none => IsDatePath(resp.url_parts.page_path, store[resp.id])

\* C6, the part that holds: get_date_url gives /YYYY/MM/DD/slug/
DateUrlIsDatePath ==
    resp.op = "url" => IsDatePath(resp.date_url, store[resp.id])


\* ------------------------------------------------ strings as characters

LowerChars == <<"a", "b", "d", "g", "i", "l", "o", "r", "s", "t">>

UpperChars == <<"A", "B", "D", "G", "I", "L", "O", "R", "S", "T">>

\* c.lower() of each upper-case letter
ToLower ==
    [c \in {UpperChars[i] : i \in DOMAIN UpperChars} |->
        LowerChars[CHOOSE i \in DOMAIN UpperChars : UpperChars[i] = c]]

\* c.upper() of each lower-case letter
ToUpper ==
    [c \in {LowerChars[i] : i \in DOMAIN LowerChars} |->
        UpperChars[CHOOSE i \in DOMAIN LowerChars : LowerChars[i] = c]]

LowerChar(c) == IF c \in DOMAIN ToLower THEN ToLower[c] ELSE c

UpperChar(c) == IF c \in DOMAIN ToUpper THEN ToUpper[c] ELSE c

\* s.lower()
Lower(chars) == [i \in DOMAIN chars |-> LowerChar(chars[i])]

\* s.replace(a, b) for single characters a and b
Replace(chars, a, b) == [i \in DOMAIN chars |-> IF chars[i] = a THEN b ELSE chars[i]]

\* s.title(): a letter that follows a letter is lowered, any other letter
\* is raised
Title(chars) ==
    [i \in DOMAIN chars |->
        IF i > 1 /\ chars[i - 1] \in (DOMAIN ToLower) \cup (DOMAIN ToUpper)
        THEN LowerChar(chars[i]) ELSE UpperChar(chars[i])]

\* sub in s
Contains(sub, chars) ==
    \E k \in 0..(Len(chars) - Len(sub)) : SubSeq(chars, k + 1, k + Len(sub)) = sub

\* s.strip(drop): without the characters of drop at its two ends
Strip(chars, drop) ==
    LET inked == {i \in DOMAIN chars : chars[i] \notin drop}
    IN IF inked = {} THEN <<>>
       ELSE SubSeq(chars, CHOOSE i \in inked : \A j \in inked : i <= j,
                          CHOOSE i \in inked : \A j \in inked : i >= j)

\* django.utils.text.slugify: lower case, without the characters that are
\* neither word characters nor blanks nor hyphens, each run of blanks and
\* hyphens turned to one hyphen, without hyphens and underscores at the ends
slugify(chars) ==
    LET word == (DOMAIN ToLower) \cup (DOMAIN ToUpper)
                \cup {DigitChars[i] : i \in DOMAIN DigitChars} \cup {"_"}
        kept == SelectSeq(Lower(chars), LAMBDA c : c \in word \cup {" ", "-"})
        hyphened == Replace(kept, " ", "-")
        firsts == {i \in DOMAIN hyphened :
                      hyphened[i] # "-" \/ i = 1 \/ hyphened[i - 1] # "-"}
        joined == [k \in 1..Cardinality(firsts) |->
                      hyphened[CHOOSE i \in firsts :
                                  Cardinality({j \in firsts : j <= i}) = k]]
    IN Strip(joined, {"-", "_"})

\* BlogPage.get_author_url: the author_slug that reverse() puts in
\* /blog/author/<author_slug>/
get_author_url(self) == slugify(self.author)

\* ------------------------------------------------------------ paginator

\* Paginator.num_pages: ceil(max(1, count) / per_page)
num_pages(count, per_page) == (Max(1, count) + per_page - 1) \div per_page

\* int(number) of the raw page parameter: request.GET.get('page', 1) is 1
\* when the parameter is absent, else the string given
page_int(raw) ==
    IF ~raw.given THEN [ok |-> TRUE, n |-> 1]
    ELSE IF raw.chars # <<>> /\ AllDigits(raw.chars)
         THEN [ok |-> TRUE, n |-> DigitsValue(raw.chars)]
    ELSE IF Len(raw.chars) > 1 /\ raw.chars[1] = "-" /\ AllDigits(Tail(raw.chars))
         THEN [ok |-> TRUE, n |-> 0 - DigitsValue(Tail(raw.chars))]
    ELSE [ok |-> FALSE, n |-> 0]

\* Paginator.validate_number: the exception it raises, "" when none
validate_number(pages, raw) ==
    IF ~page_int(raw).ok THEN "PageNotAnInteger"
    ELSE IF page_int(raw).n < 1 THEN "EmptyPage"
    ELSE IF page_int(raw).n > pages THEN "EmptyPage"
    ELSE ""

\* Paginator.get_page sending every EmptyPage to the first page: a
\* plausible slip
get_page_first_on_empty(pages, raw) ==
    IF validate_number(pages, raw) = "" THEN page_int(raw).n ELSE 1

\* Paginator.get_page: the number of the page it returns
get_page(pages, raw) ==
    IF validate_number(pages, raw) = "PageNotAnInteger" THEN 1
    ELSE IF validate_number(pages, raw) = "EmptyPage" THEN pages
    ELSE page_int(raw).n

\* Paginator.page(number).object_list
page_objects(object_list, per_page, number) ==
    SubSeq(object_list, (number - 1) * per_page + 1,
           Min(number * per_page, Len(object_list)))

RECURSIVE OrderByDate(_, _)
\* order_by('-date') of the posts S of store s
OrderByDate(s, S) ==
    IF S = {} THEN <<>>
    ELSE LET m == CHOOSE x \in S : \A y \in S : ~DateAfter(s[y].date, s[x].date)
         IN <<m>> \o OrderByDate(s, S \ {m})

\* paginator = Paginator(posts, per_page); posts_page = paginator.get_page(
\* request.GET.get('page', 1)); render(...)
Listing(view, posts, per_page, raw, extra) ==
    LET pages == num_pages(Len(posts), per_page)
        number == get_page(pages, raw)
    IN [op |-> view, status |-> 200, page |-> raw, per_page |-> per_page,
        num_pages |-> pages, number |-> number, count |-> Len(posts),
        object_list |-> posts,
        posts |-> page_objects(posts, per_page, number), extra |-> extra]

\* a response that is not a listing: 404 (Http404) or 500 (an exception
\* that leaves the view)
Failure(view, status, raw, extra) ==
    [op |-> view, status |-> status, page |-> raw, per_page |-> 0, num_pages |-> 0,
     number |-> 0, count |-> 0, object_list |-> <<>>, posts |-> <<>>,
     extra |-> extra]

PostsPerPage == 10

GridPostsPerPage == 12

DefaultViewMode == <<"g", "r", "i", "d", "-", "2">>


\* blog_listing that uses the view parameter without storing it in the
\* session: a plausible slip
blog_listing_without_session(view, raw) ==
    LET stored == IF ("blog_view_mode") \in DOMAIN session THEN session[("blog_view_mode")]
                  ELSE DefaultViewMode
        view_mode == IF view.given THEN view.chars ELSE stored
        posts == OrderByDate(store, LivePublic(store))
        posts_per_page == IF Contains(<<"g", "r", "i", "d">>, view_mode)
                          THEN GridPostsPerPage ELSE PostsPerPage
    IN /\ session' = session
       /\ resp' = Listing("blog_listing", posts, posts_per_page, raw, view_mode)
       /\ UNCHANGED <<store, cache, today>>

\* blog_listing with the page size of the archives in every view mode: a
\* plausible slip
blog_listing_ten_per_page(view, raw) ==
    LET stored == IF ("blog_view_mode") \in DOMAIN session THEN session[("blog_view_mode")]
                  ELSE DefaultViewMode
        view_mode == IF view.given THEN view.chars ELSE stored
        posts == OrderByDate(store, LivePublic(store))
    IN /\ session' = IF view.given THEN [k \in {("blog_view_mode")} |-> view_mode] ELSE session
       /\ resp' = Listing("blog_listing", posts, PostsPerPage, raw, view_mode)
       /\ UNCHANGED <<store, cache, today>>

\* blog_listing: view is the view query parameter, raw the page parameter
blog_listing(view, raw) ==
    LET stored == IF ("blog_view_mode") \in DOMAIN session THEN session[("blog_view_mode")]
                  ELSE DefaultViewMode
        view_mode == IF view.given THEN view.chars ELSE stored
        posts == OrderByDate(store, LivePublic(store))
        posts_per_page == IF Contains(<<"g", "r", "i", "d">>, view_mode)
                          THEN GridPostsPerPage ELSE PostsPerPage
    IN /\ session' = IF view.given THEN [k \in {("blog_view_mode")} |-> view_mode] ELSE session
       /\ resp' = Listing("blog_listing", posts, posts_per_page, raw, view_mode)
       /\ UNCHANGED <<store, cache, today>>

\* blog_author_archive listing every post of the substring match: a
\* plausible slip
blog_author_archive_all_similar(author_slug, raw) ==
    LET author_name == Title(Replace(author_slug, "-", " "))
        wanted == Lower(author_name)
        needle == Lower(Replace(author_slug, "-", " "))
        exact == {p \in LivePublic(store) : Lower(store[p].author) = wanted}
        similar == {p \in LivePublic(store) : Contains(needle, Lower(store[p].author))}
        posts == IF exact # {} THEN exact ELSE similar
    IN /\ \E found \in {posts} :
             resp' = Listing("blog_author_archive", OrderByDate(store, found),
                             PostsPerPage, raw,
                             [author_slug |-> author_slug, author_name |-> author_name])
       /\ UNCHANGED <<store, cache, session, today>>

\* blog_author_archive
blog_author_archive(author_slug, raw) ==
    LET author_name == Title(Replace(author_slug, "-", " "))
        wanted == Lower(author_name)
        needle == Lower(Replace(author_slug, "-", " "))
        exact == {p \in LivePublic(store) : Lower(store[p].author) = wanted}
        similar == IF exact # {} THEN {}
                   ELSE {p \in LivePublic(store) :
                            Contains(needle, Lower(store[p].author))}
        sample_post == IF similar = {} THEN NoneId
                       ELSE LastPublished(store, similar)
        name == IF sample_post # NoneId THEN store[sample_post].author
                ELSE author_name
        posts == IF exact # {} THEN exact
                 ELSE IF sample_post # NoneId
                      THEN {p \in LivePublic(store) : store[p].author = name}
                 ELSE {}
    IN /\ \E found \in {posts} :    \* the query set, evaluated once
             resp' = Listing("blog_author_archive", OrderByDate(store, found),
                             PostsPerPage, raw,
                             [author_slug |-> author_slug, author_name |-> name])
       /\ UNCHANGED <<store, cache, session, today>>

\* the rows of the Tag table: the tags the posts carry
TagSlugs(s) == UNION {s[p].tags : p \in DOMAIN s}

\* blog_tag_archive
blog_tag_archive(tag_slug, raw) ==
    LET posts == {p \in LivePublic(store) : tag_slug \in store[p].tags}
    IN /\ resp' = IF tag_slug \notin TagSlugs(store)
                  THEN Failure("blog_tag_archive", 404, raw, tag_slug)
                  ELSE Listing("blog_tag_archive", OrderByDate(store, posts),
                               PostsPerPage, raw, tag_slug)
       /\ UNCHANGED <<store, cache, session, today>>

LeapYear(y) == (y % 4 = 0 /\ y % 100 # 0) \/ y % 400 = 0

DaysInMonth(y, m) ==
    IF m = 2 THEN (IF LeapYear(y) THEN 29 ELSE 28)
    ELSE IF m \in {4, 6, 9, 11} THEN 30 ELSE 31

\* datetime.date(y, m, d) does not raise ValueError
ValidDate(y, m, d) ==
    /\ y >= 1 /\ y <= 9999
    /\ m >= 1 /\ m <= 12
    /\ d >= 1 /\ d <= DaysInMonth(y, m)

\* blog_year_archive: the date__year lookup builds date(year, 1, 1)
blog_year_archive(year, raw) ==
    LET posts == {p \in LivePublic(store) : store[p].date.year = year}
    IN /\ resp' = IF ~ValidDate(year, 1, 1)
                  THEN Failure("blog_year_archive", 500, raw, <<year>>)
                  ELSE Listing("blog_year_archive", OrderByDate(store, posts),
                               PostsPerPage, raw, <<year>>)
       /\ UNCHANGED <<store, cache, session, today>>

\* blog_month_archive filtering on the month alone: a plausible slip
blog_month_archive_any_year(year, month, raw) ==
    LET posts == {p \in LivePublic(store) : store[p].date.month = month}
    IN /\ resp' = IF ~ValidDate(year, month, 1)
                  THEN Failure("blog_month_archive", 500, raw, <<year, month>>)
                  ELSE Listing("blog_month_archive", OrderByDate(store, posts),
                               PostsPerPage, raw, <<year, month>>)
       /\ UNCHANGED <<store, cache, session, today>>

\* blog_month_archive: month_date = date(year, month, 1)
blog_month_archive(year, month, raw) ==
    LET posts == {p \in LivePublic(store) :
                     store[p].date.year = year /\ store[p].date.month = month}
    IN /\ resp' = IF ~ValidDate(year, month, 1)
                  THEN Failure("blog_month_archive", 500, raw, <<year, month>>)
                  ELSE Listing("blog_month_archive", OrderByDate(store, posts),
                               PostsPerPage, raw, <<year, month>>)
       /\ UNCHANGED <<store, cache, session, today>>

\* blog_day_archive: archive_date = date(year, month, day)
blog_day_archive(year, month, day, raw) ==
    LET posts == {p \in LivePublic(store) : store[p].date = Date(year, month, day)}
    IN /\ resp' = IF ~ValidDate(year, month, day)
                  THEN Failure("blog_day_archive", 500, raw, <<year, month, day>>)
                  ELSE Listing("blog_day_archive", OrderByDate(store, posts),
                               PostsPerPage, raw, <<year, month, day>>)
       /\ UNCHANGED <<store, cache, session, today>>


\* the cache after BlogPage.get_context of post p has run on store s and
\* cache c: the related posts are cached when they were not
cache_after_context(s, c, p) ==
    LET cache_key == Key("blog_related_posts_", p)
    IN IF s[p].show_related_posts /\ s[p].tags # {} /\ cache_key \notin DOMAIN c
       THEN cache_set(c, cache_key, related_query(s, p))
       ELSE c

\* blog_post_detail: get_object_or_404 on the live public posts of that
\* date and slug, then post.serve(request), which renders the post with
\* its get_context
blog_post_detail(year, month, day, slug) ==
    LET found == {p \in LivePublic(store) :
                     store[p].date = Date(year, month, day) /\ store[p].slug = slug}
        args == <<year, month, day>>
        status == IF ~ValidDate(year, 1, 1) THEN 500
                  ELSE IF found = {} THEN 404
                  ELSE IF Cardinality(found) > 1 THEN 500
                  ELSE 200
        post == IF status = 200 THEN CHOOSE p \in found : TRUE ELSE NoneId
    IN /\ resp' = [op |-> "blog_post_detail", status |-> status, args |-> args,
                   slug |-> slug, post |-> post]
       /\ cache' = IF status = 200 THEN cache_after_context(store, cache, post)
                   ELSE cache
       /\ UNCHANGED <<store, session, today>>

\* ------------------------------------- listings and archives (SpecPages)

MaxPageParam == 3

MaxPagePosts == 13

\* how many posts the blog holds: none, less than a page, one more than a
\* page of ten, one more than a page of twelve
PostCounts == {0, 5, 11, MaxPagePosts}

PagesStore(n) ==
    [p \in 1..n |->
        [id |-> p, slug |-> TestSlug, author |-> TestAuthor, date |-> Today0,
         intro |-> HelloWorld, body |-> <<>>, tags |-> {"a"},
         featured |-> FALSE, show_related_posts |-> TRUE, live |-> TRUE,
         public |-> TRUE, first_published_at |-> p,
         estimated_reading_time |-> 1]]

InitPages ==
    /\ store \in {PagesStore(n) : n \in PostCounts}
    /\ cache = <<>>
    /\ session = <<>>
    /\ today = Today0
    /\ resp = [op |-> "init"]

Absent == [given |-> FALSE, chars |-> <<>>]

Given(chars) == [given |-> TRUE, chars |-> chars]

\* ?page= absent, a number from 0 up, a negative number, not a number
PageParams ==
    {Absent} \cup {Given(Decimal(n)) : n \in 0..MaxPageParam}
             \cup {Given(<<"-", "1">>), Given(<<"a">>)}


ViewParams == {Absent, Given(DefaultViewMode), Given(<<"l", "i", "s", "t">>)}

AuthorSlugs == {<<"a", "l", "-", "b", "o">>, <<"a", "l">>, <<"b", "o", "b">>}


\* the day of the posts, a thirteenth month, a thirty-first of September,
\* the year 0
DateParams == {<<2025, 10, 19>>, <<2025, 13, 19>>, <<2025, 9, 31>>, <<0, 10, 19>>}

NextPages ==
    \/ \E view \in ViewParams, raw \in PageParams : blog_listing(view, raw)
    \/ \E author_slug \in AuthorSlugs, raw \in PageParams :
          blog_author_archive(author_slug, raw)
    \/ \E tag_slug \in {"a", "b"}, raw \in PageParams : blog_tag_archive(tag_slug, raw)
    \/ \E d \in DateParams, raw \in PageParams : blog_year_archive(d[1], raw)
    \/ \E d \in DateParams, raw \in PageParams : blog_month_archive(d[1], d[2], raw)
    \/ \E d \in DateParams, raw \in PageParams :
          blog_day_archive(d[1], d[2], d[3], raw)

SpecPages == InitPages /\ [][NextPages]_vars

ListingOps ==
    {"blog_listing", "blog_author_archive", "blog_tag_archive",
     "blog_year_archive", "blog_month_archive", "blog_day_archive"}

\* the response is a rendered listing
Listed == resp.op \in ListingOps /\ resp.status = 200

\* the request asked for page number n
AskedPage(n) == resp.page.given /\ resp.page.chars = Decimal(n)

\* the request asked for a page past the last one
AskedPastEnd == \E n \in 1..MaxPageParam : AskedPage(n) /\ n > resp.num_pages

\* the posts of the page numbered n of the listing
PageHolds(n) ==
    /\ resp.number = n
    /\ Len(resp.posts) = Min(resp.per_page, resp.count - (n - 1) * resp.per_page)

\* the date parts of a date archive request do not name a day of the
\* calendar
NotADate ==
    LET a == resp.extra
        y == a[1]
        m == IF Len(a) > 1 THEN a[2] ELSE 1
        d == IF Len(a) > 2 THEN a[3] ELSE 1
    IN \/ y < 1 \/ y > 9999
       \/ m \notin 1..12
       \/ d < 1
       \/ d > 31
       \/ (d = 31 /\ m \in {4, 6, 9, 11})
       \/ (m = 2 /\ d > 29)

\* the only responses that are not a rendered listing: a tag that does not
\* exist (404) and a date archive asked for something that is not a date
\* (500); the page parameter is never the cause
NoPagingError ==
    /\ resp.status = 500 =>
          /\ resp.op \in {"blog_year_archive", "blog_month_archive",
                          "blog_day_archive"}
          /\ NotADate
    /\ (resp.status # 200 /\ resp.status # 500) =>
          (resp.status = 404 /\ resp.op = "blog_tag_archive")

\* C8: in every listing and archive view, page 0 returns the first page,
\* a page number past the end returns the last page, and the page
\* parameter raises no error
PageClampedToNearest ==
    resp.op \in ListingOps =>
        /\ Listed /\ AskedPage(0) => PageHolds(1)
        /\ Listed /\ AskedPastEnd => PageHolds(resp.num_pages)
        /\ NoPagingError

\* C8 as the code has it: page 0 and a page number past the end both
\* return the last page, and the page parameter raises no error
PageClampedToLast ==
    resp.op \in ListingOps =>
        /\ Listed /\ (AskedPage(0) \/ AskedPastEnd) =>
              /\ PageHolds(resp.num_pages)
              /\ resp.num_pages * resp.per_page >= resp.count
              /\ (resp.num_pages - 1) * resp.per_page < Max(1, resp.count)
        /\ NoPagingError

\* page 0 was asked of a listing of several pages and the last one came back
PageClampedToLastWitness ==
    /\ Listed
    /\ AskedPage(0)
    /\ resp.num_pages > 1
    /\ resp.number = resp.num_pages
    /\ resp.posts # <<>>


RECURSIVE SplitSlash(_)
\* the segments of a path between its slashes
SplitSlash(chars) ==
    IF \A i \in DOMAIN chars : chars[i] # "/" THEN <<chars>>
    ELSE LET i == CHOOSE k \in DOMAIN chars :
                      chars[k] = "/" /\ \A j \in 1..(k - 1) : chars[j] # "/"
         IN <<SubSeq(chars, 1, i - 1)>> \o SplitSlash(SubSeq(chars, i + 1, Len(chars)))

\* the route "<int:year>/<int:month>/<int:day>/<slug:slug>/" applied to a
\* request path: whether it matches, and the arguments of the view
route_detail(path) ==
    LET seg == SplitSlash(path)
        ok == /\ Len(seg) = 6
              /\ seg[1] = <<>> /\ seg[6] = <<>>
              /\ \A k \in 2..4 : seg[k] # <<>> /\ AllDigits(seg[k])
              /\ seg[5] # <<>>
    IN IF ok THEN [matched |-> TRUE, year |-> DigitsValue(seg[2]),
                   month |-> DigitsValue(seg[3]), day |-> DigitsValue(seg[4]),
                   slug |-> seg[5]]
       ELSE [matched |-> FALSE, year |-> 0, month |-> 0, day |-> 0, slug |-> <<>>]

\* GET of the date URL of the stored post p
GetDateUrl(p) ==
    LET m == route_detail(get_date_url(store[p]))
    IN m.matched /\ blog_post_detail(m.year, m.month, m.day, m.slug)

\* ------------------------------------------ date archives (SpecArchive)

\* Page._slug_is_available: no other page under the same parent has the
\* slug; a save with a slug that is taken is turned down
slug_is_available(s, p, slug) == \A q \in (DOMAIN s) \ {p} : s[q].slug # slug

\* posts of two years, two months of a year and two days of a month,
\* published or draft
ArchiveDates == {Today0, Date(2025, 10, 18), Date(2025, 9, 19), Date(2024, 10, 19)}

ArchiveData ==
    {[d EXCEPT !.slug = slug] :
        d \in PostData({HelloWorld}, {<<>>}, {TestAuthor}, ArchiveDates, {{}},
                       {FALSE}, {TRUE})
              \cup PostData({HelloWorld}, {<<>>}, {TestAuthor}, {Today0}, {{}},
                            {FALSE}, {FALSE}),
        slug \in {TestSlug, ShortSlug}}

\* the dates a request names: those of the posts, a day without posts and
\* integers the routes accept that name no date
ArchiveParams ==
    {<<d.year, d.month, d.day>> : d \in ArchiveDates}
    \cup {<<2025, 10, 20>>} \cup DateParams

NextArchive ==
    \/ \E p \in (DOMAIN store) \cup {NoneId}, d \in ArchiveData :
          CanSave(p) /\ slug_is_available(store, p, d.slug) /\ SavePost(p, d)
    \/ \E d \in ArchiveParams : blog_year_archive(d[1], Absent)
    \/ \E d \in ArchiveParams : blog_month_archive(d[1], d[2], Absent)
    \/ \E d \in ArchiveParams : blog_day_archive(d[1], d[2], d[3], Absent)
    \/ \E d \in ArchiveParams, slug \in {TestSlug, ShortSlug} :
          blog_post_detail(d[1], d[2], d[3], slug)
    \/ \E p \in DOMAIN store : GetDateUrl(p)

SpecArchive == Init /\ [][NextArchive]_vars


DateArchiveOps == {"blog_year_archive", "blog_month_archive", "blog_day_archive"}

\* post p is dated within the year, month or day the archive request named
InArchive(p) ==
    LET a == resp.extra
    IN /\ store[p].date.year = a[1]
       /\ Len(a) > 1 => store[p].date.month = a[2]
       /\ Len(a) > 2 => store[p].date.day = a[3]

\* the sequence of posts lists no post twice and is ordered by date, latest
\* first
DateDescending(seq) ==
    /\ \A i, j \in DOMAIN seq : i < j => seq[i] # seq[j]
    /\ \A i, j \in DOMAIN seq : i < j => ~DateAfter(store[seq[j]].date, store[seq[i]].date)

\* C12: the year, month and day archives of a calendar date list exactly
\* the live public posts dated within that year, month or day, ordered by
\* date descending (so the day archive lies within the month archive and
\* the month archive within the year archive).
ArchiveListsExactlyDated ==
    (resp.op \in DateArchiveOps /\ ~NotADate) =>
        /\ resp.status = 200
        /\ SeqSet(resp.object_list) =
              {p \in DOMAIN store : store[p].live /\ store[p].public /\ InArchive(p)}
        /\ DateDescending(resp.object_list)
        /\ resp.posts = resp.object_list

\* a month archive listed one post while another live post of the same
\* month number, of another year, is stored
ArchiveListsExactlyDatedWitness ==
    /\ resp.op = "blog_month_archive"
    /\ resp.status = 200
    /\ Len(resp.object_list) = 1
    /\ \E q \in DOMAIN store :
          /\ store[q].live
          /\ store[q].date.month = resp.extra[2]
          /\ store[q].date.year # resp.extra[1]


\* C13: a year, month or day archive asked for integers that match no post
\* returns a listing of zero posts and raises no error.
EmptyArchiveNoError ==
    (/\ resp.op \in DateArchiveOps
     /\ \A p \in LivePublic(store) : ~InArchive(p)) =>
        /\ resp.status = 200
        /\ resp.object_list = <<>>
        /\ resp.posts = <<>>


\* post p is live, public, dated as the detail request says and has the
\* slug it says
DetailMatches(p) ==
    /\ store[p].live /\ store[p].public
    /\ <<store[p].date.year, store[p].date.month, store[p].date.day>> = resp.args
    /\ store[p].slug = resp.slug

\* C14: the detail route /Y/M/D/slug/ serves post P exactly when P is live,
\* public, dated Y-M-D and has that slug; the date URL of every live public
\* post leads to that post, and a path that matches no such post gives a
\* not-found response, no error and no other post.
DetailServesExactlyMatch ==
    /\ \A p \in LivePublic(store) :
          LET m == route_detail(get_date_url(store[p]))
          IN /\ m.matched
             /\ <<m.year, m.month, m.day>> =
                   <<store[p].date.year, store[p].date.month, store[p].date.day>>
             /\ m.slug = store[p].slug
    /\ resp.op = "blog_post_detail" =>
          /\ \A p \in DOMAIN store :
                DetailMatches(p) => (resp.status = 200 /\ resp.post = p)
          /\ (\A p \in DOMAIN store : ~DetailMatches(p)) => resp.status = 404


\* --------------------------------- what is listed or served (SpecListed)

\* featured, tagged posts of one day, published or draft
ListedData ==
    {[d EXCEPT !.slug = slug] :
        d \in PostData({HelloWorld}, {<<>>}, {TestAuthor}, {Today0}, {{"a"}},
                       {TRUE}, BOOLEAN),
        slug \in {TestSlug, ShortSlug}}

NextListed ==
    \/ \E p \in (DOMAIN store) \cup {NoneId}, d \in ListedData :
          CanSave(p) /\ slug_is_available(store, p, d.slug) /\ SavePost(p, d)
    \/ \E limit \in Limits : get_recent_posts(limit)
    \/ \E limit \in Limits : get_featured_posts(limit)
    \/ \E limit \in {0} \cup Limits : get_posts_by_tag("a", limit)
    \/ blog_listing(Absent, Absent)
    \/ blog_author_archive(<<"a", "l", "-", "b", "o">>, Absent)
    \/ blog_tag_archive("a", Absent)
    \/ blog_year_archive(Today0.year, Absent)
    \/ blog_month_archive(Today0.year, Today0.month, Absent)
    \/ blog_day_archive(Today0.year, Today0.month, Today0.day, Absent)
    \/ \E p \in DOMAIN store : GetDateUrl(p)
    \/ \E key \in DOMAIN cache : Expire(key)

SpecListed == Init /\ [][NextListed]_vars

\* the posts the last operation listed or served
ListedPosts ==
    IF resp.op \in {"get_recent_posts", "get_featured_posts", "get_posts_by_tag"}
    THEN SeqSet(resp.posts)
    ELSE IF resp.op \in ListingOps THEN SeqSet(resp.object_list)
    ELSE IF resp.op = "blog_post_detail" /\ resp.status = 200 THEN {resp.post}
    ELSE {}

\* C15: every post that a listing operation returns or that the detail view
\* serves is published and publicly visible.
OnlyLivePublicListed ==
    \A p \in ListedPosts : p \in DOMAIN store /\ store[p].live /\ store[p].public


\* ------------------------------- previous and next (SpecNeighbours)

NumNeighbours == 3

\* three drafts that were never published; the order in which they are
\* published is the order of their publish times
NeighbourStore ==
    [p \in 1..NumNeighbours |->
        [id |-> p, slug |-> Decimal(p), author |-> TestAuthor, date |-> Today0,
         intro |-> HelloWorld, body |-> <<>>, tags |-> {},
         featured |-> FALSE, show_related_posts |-> TRUE, live |-> FALSE,
         public |-> TRUE, first_published_at |-> 0,
         estimated_reading_time |-> 1]]

InitNeighbours ==
    /\ store = NeighbourStore
    /\ cache = <<>>
    /\ session = <<>>
    /\ today = Today0
    /\ resp = [op |-> "init"]


NextNeighbours ==
    \/ \E p \in DOMAIN store,
          d \in PostData({HelloWorld}, {<<>>}, {TestAuthor}, {Today0}, {{}},
                         {FALSE}, BOOLEAN) :
          SavePost(p, [d EXCEPT !.slug = store[p].slug])
    \/ \E p \in DOMAIN store : get_context(p)

SpecNeighbours == InitNeighbours /\ [][NextNeighbours]_vars

\* the live public posts published before post p, and after it
Older(p) ==
    {q \in DOMAIN store : /\ store[q].live /\ store[q].public
                          /\ store[q].first_published_at < store[p].first_published_at}

Newer(p) ==
    {q \in DOMAIN store : /\ store[q].live /\ store[q].public
                          /\ store[q].first_published_at > store[p].first_published_at}

\* C16: in P's get_context prev_post is the next-older live public post and
\* next_post the next-newer one by publish time; prev_post is omitted for
\* the oldest post, next_post for the newest, and both for a post that is
\* not live and public.
NeighboursByPublishTime ==
    resp.op = "get_context" =>
        LET P == resp.id
            listed == store[P].live /\ store[P].public
        IN /\ "prev_post" \in resp.keys <=> (listed /\ Older(P) # {})
           /\ "next_post" \in resp.keys <=> (listed /\ Newer(P) # {})
           /\ "prev_post" \in resp.keys =>
                 /\ resp.prev_post \in Older(P)
                 /\ \A q \in Older(P) : store[q].first_published_at
                                           <= store[resp.prev_post].first_published_at
           /\ "next_post" \in resp.keys =>
                 /\ resp.next_post \in Newer(P)
                 /\ \A q \in Newer(P) : store[q].first_published_at
                                           >= store[resp.next_post].first_published_at

\* a post with an older and a newer neighbour got both, and the post with
\* the highest id is not the newest
NeighboursByPublishTimeWitness ==
    /\ resp.op = "get_context"
    /\ {"prev_post", "next_post"} \subseteq resp.keys
    /\ resp.prev_post > resp.next_post


\* ------------------------------------------ author archive (SpecAuthors)


\* posts of four author names, two of them equal but for their case, one
\* with a hyphen
AuthorData ==
    {[d EXCEPT !.slug = slug] :
        d \in PostData({HelloWorld}, {<<>>},
                       {TestAuthor, <<"a", "l", " ", "b", "o">>,
                        <<"A", "l", " ", "D", "o">>, <<"A", "l", "-", "B", "o">>},
                       {Today0}, {{}}, {FALSE}, BOOLEAN),
        slug \in {TestSlug, ShortSlug}}

NextAuthors ==
    \/ \E p \in (DOMAIN store) \cup {NoneId}, d \in AuthorData :
          CanSave(p) /\ slug_is_available(store, p, d.slug) /\ SavePost(p, d)
    \/ \E author_slug \in AuthorSlugs : blog_author_archive(author_slug, Absent)
    \/ \E p \in DOMAIN store :    \* the author link of post p is followed
          blog_author_archive(get_author_url(store[p]), Absent)

SpecAuthors == Init /\ [][NextAuthors]_vars

\* the name an author archive was asked for: the slug with its hyphens
\* turned to spaces, in lower case
RequestedName == Lower(Replace(resp.extra.author_slug, "-", " "))

\* the live public posts whose author is the requested name but for case
ExactAuthorPosts ==
    {p \in DOMAIN store : /\ store[p].live /\ store[p].public
                          /\ Lower(store[p].author) = RequestedName}

\* the live public posts whose author contains the requested name but for
\* case
SimilarAuthorPosts ==
    {p \in DOMAIN store : /\ store[p].live /\ store[p].public
                          /\ Contains(RequestedName, Lower(store[p].author))}

HeroCtaTextMaxLength == 50

\* URLValidator on what the instances hold: a scheme, "://" and a host
url_is_valid(chars) ==
    \E k \in 2..(Len(chars) - 3) : SubSeq(chars, k, k + 2) = <<":", "/", "/">>

\* Model.clean_fields of HomePage for the four fields: hero_cta_text is a
\* CharField(max_length=50, blank=True), hero_cta_link a
\* URLField(blank=True), the two counts are IntegerFields without
\* validators
HomePage_clean_fields(self) ==
    {k \in {"hero_cta_text"} : Len(self.hero_cta_text) > HeroCtaTextMaxLength}
    \cup {k \in {"hero_cta_link"} :
             self.hero_cta_link # <<>> /\ ~url_is_valid(self.hero_cta_link)}

\* HomePage.clean: the class defines none, so it is Page.clean, which
\* knows nothing of the fields of HomePage
HomePage_clean(self) == {}

\* homepage.clean()
CleanHome(self) ==
    /\ resp' = [op |-> "HomePage.clean", self |-> self, errors |-> HomePage_clean(self)]
    /\ UNCHANGED <<store, cache, session, today>>

\* homepage.full_clean()
FullCleanHome(self) ==
    /\ resp' = [op |-> "HomePage.full_clean", self |-> self,
                errors |-> HomePage_clean_fields(self) \cup HomePage_clean(self)]
    /\ UNCHANGED <<store, cache, session, today>>


\* the counts at, inside and outside the edges of 0..20 and 0..50, the call
\* to action with and without its text and its link
HomeInstances ==
    [number_of_featured_posts : {0 - 1, 0, 3, 20, 21, 25},
     number_of_recent_posts : {0 - 1, 0, 5, 50, 51, 100},
     hero_cta_text : {<<>>, <<"C", "l", "i", "c", "k">>},
     hero_cta_link : {<<>>, <<"h", ":", "/", "/", "x">>}]

NextHome ==
    \/ \E self \in HomeInstances : CleanHome(self)
    \/ \E self \in HomeInstances : FullCleanHome(self)

SpecHome == Init /\ [][NextHome]_vars

HomeValidated == resp.op \in {"HomePage.clean", "HomePage.full_clean"}

\* C18: HomePage validation rejects a number_of_featured_posts outside
\* 0..20 and a number_of_recent_posts outside 0..50, each with an error
\* keyed by the field, and accepts the values inside the ranges.
HomeCountsInRange ==
    HomeValidated =>
        /\ "number_of_featured_posts" \in resp.errors
              <=> resp.self.number_of_featured_posts \notin 0..20
        /\ "number_of_recent_posts" \in resp.errors
              <=> resp.self.number_of_recent_posts \notin 0..50

\* C19: HomePage validation fails, with an error keyed hero_cta_link, when
\* hero_cta_text is set and hero_cta_link is empty, fails when the link is
\* set and the text is empty, and raises nothing about the two when both
\* are set or both are empty.
HomeCtaTextAndLinkTogether ==
    HomeValidated =>
        LET text == resp.self.hero_cta_text # <<>>
            link == resp.self.hero_cta_link # <<>>
        IN /\ (text /\ ~link) => "hero_cta_link" \in resp.errors
           /\ (link /\ ~text) => resp.errors # {}
           /\ (text <=> link) =>
                 resp.errors \cap {"hero_cta_link", "hero_cta_text"} = {}


\* ------------------------------------ batch recomputation (SpecBatch)


\* the posts are tagged and have 2 words or 300 words: the batch leaves the
\* first alone and reports the second (300 // 200 = 1, round(300 / 200) = 2);
\* a save with an intro of 251 characters is turned down
NextBatch ==
    \/ \E p \in (DOMAIN store) \cup {NoneId},
          d \in PostData({HelloWorld}, {<<>>, <<HeadingBlock(Words(296))>>},
                         {TestAuthor}, {Today0}, {{"a"}}, {FALSE}, {TRUE})
                \cup PostData({Intro251}, {<<>>}, {TestAuthor}, {Today0}, {{"a"}},
                              {FALSE}, {TRUE}) :
          CanSave(p) /\ SavePost(p, d)
    \/ \E p \in DOMAIN store : get_context(p)
    \/ \E dry_run \in BOOLEAN, failing \in SUBSET DOMAIN store :
          Recalculate(dry_run, failing)

SpecBatch == Init /\ [][NextBatch]_vars

\* what a run that writes reports on the present state
RealRunReport ==
    batch(OrderByPublished(store, DOMAIN store), store, cache, FALSE, today, {}).report

\* C20: a dry run of the batch writes nothing: the stored posts, their
\* reading times and the cache are after it what they were before it, and
\* it reports the changes that a real run on the same state reports.
DryRunWritesNothing ==
    [][(resp'.op = "recalculate" /\ resp'.dry_run) =>
          /\ store' = store
          /\ cache' = cache
          /\ resp'.report = RealRunReport]_vars

\* a dry run has reported a change while a cache entry is there that a real
\* run would have deleted
DryRunWritesNothingWitness ==
    /\ resp.op = "recalculate"
    /\ resp.dry_run
    /\ \E line \in resp.report : Key("blog_related_posts_", line[1]) \in DOMAIN cache


\* C21: the reading time that the batch computes for a post is the one that
\* save computes from the same intro and body, max(1, word_count // 200).
BatchTimeIsSaveTime ==
    resp.op = "recalculate" =>
        \A line \in resp.report :
            line[3] = Max(1, word_count(store[line[1]].intro, store[line[1]].body) \div 200)

\* C22: the batch goes on after a failure: a post whose stored time still
\* differs from its new time after a run that writes was at least reported
\* by that run.
BatchContinuesAfterFailure ==
    (resp.op = "recalculate" /\ ~resp.dry_run) =>
        \A p \in DOMAIN store :
            store[p].estimated_reading_time # batch_time(store[p]) =>
                \E line \in resp.report : line[1] = p

\* C29: after a run that writes and did not fail, every reported post has
\* the reported new time stored, and a second run finds nothing to update.
BatchIdempotent ==
    (resp.op = "recalculate" /\ ~resp.dry_run /\ ~resp.raised) =>
        /\ \A line \in resp.report : store[line[1]].estimated_reading_time = line[3]
        /\ RealRunReport = {}

SessionViewMode(sess) ==
    IF ("blog_view_mode") \in DOMAIN sess THEN sess[("blog_view_mode")] ELSE DefaultViewMode

\* C23: a listing request with a view parameter v stores v in the session
\* and uses it; a listing request without one leaves the session as it was
\* and uses the mode the session holds, the default when it holds none; no
\* other view touches the session, so v stays until the next request that
\* carries a view parameter.
ViewModeKeptInSession ==
    [][/\ \A view \in ViewParams, raw \in PageParams :
             (resp'.op = "blog_listing" /\ resp'.page = raw /\ blog_listing(view, raw)) =>
                 IF view.given
                 THEN /\ SessionViewMode(session') = view.chars
                      /\ ("blog_view_mode") \in DOMAIN session'
                      /\ resp'.extra = view.chars
                 ELSE /\ session' = session
                      /\ resp'.extra = SessionViewMode(session)
       /\ resp'.op # "blog_listing" => session' = session]_vars

\* the list mode is stored in the session, and a listing has been served in
\* list mode with the page size of that mode
ViewModeKeptInSessionWitness ==
    /\ resp.op = "blog_listing"
    /\ SessionViewMode(session) = <<"l", "i", "s", "t">>
    /\ resp.extra = <<"l", "i", "s", "t">>
    /\ resp.per_page = PostsPerPage
    /\ resp.number = 2

\* C24: the blog listing pages at 12 posts in a grid mode and at 10
\* otherwise, every archive pages at 10, and no page holds more posts than
\* its page size.
PageSizes ==
    Listed =>
        /\ resp.per_page =
              IF resp.op = "blog_listing" /\ resp.extra = DefaultViewMode
              THEN 12 ELSE 10
        /\ Len(resp.posts) <= resp.per_page

\* a full page of each size has been served: twelve posts of the blog
\* listing in a grid mode, or ten of an archive out of more than ten
PageSizesWitness ==
    /\ Listed
    /\ resp.count > 12
    /\ resp.op = "blog_listing"
    /\ resp.extra = DefaultViewMode
    /\ Len(resp.posts) = 12


\* --------------------------------------------------- hero block (SpecHero)

\* StructBlock.clean: every child block cleans its own value; the
\* CharBlocks and the URLBlock strip it first, title is required, cta_text
\* has max_length=50, cta_link is validated as a URL unless it is empty,
\* cta_style is one of its choices
StructBlock_clean(value) ==
    LET cleaned == [value EXCEPT !.title = Strip(@, {" "}), !.cta_text = Strip(@, {" "}),
                                 !.cta_link = Strip(@, {" "})]
        errors == {k \in {"title"} : cleaned.title = <<>>}
                  \cup {k \in {"cta_text"} : Len(cleaned.cta_text) > 50}
                  \cup {k \in {"cta_link"} :
                           cleaned.cta_link # <<>> /\ ~url_is_valid(cleaned.cta_link)}
                  \cup {k \in {"cta_style"} :
                           value.cta_style \notin {"primary", "secondary", "outline"}}
    IN [errors |-> errors, value |-> IF errors = {} THEN cleaned ELSE value]

\* BaseHeroBlock.clean: the three rules on the value as it was handed in,
\* a string being truthy when it is not empty; the errors are keyed by
\* field; without errors, StructBlock.clean
BaseHeroBlock_clean(value) ==
    LET errors == {k \in {"cta_text"} : value.cta_link # <<>> /\ value.cta_text = <<>>}
                  \cup {k \in {"cta_text"} :
                           value.cta_text # <<>> /\ Strip(value.cta_text, {" "}) = <<>>}
                  \cup {k \in {"cta_link"} : value.cta_text # <<>> /\ value.cta_link = <<>>}
    IN IF errors # {} THEN [errors |-> errors, value |-> value]
       ELSE StructBlock_clean(value)

\* block.clean(value)
HeroClean(value) ==
    /\ \E r \in {BaseHeroBlock_clean(value)} :
          resp' = [op |-> "BaseHeroBlock.clean", given |-> value,
                   errors |-> r.errors, value |-> r.value]
    /\ UNCHANGED <<store, cache, session, today>>

\* the title set and blank; the text absent, blank, set, set inside blanks
\* and too long; the link absent, blank, a URL, a URL inside blanks and not
\* a URL; a style of the choices and one outside them
HeroValues ==
    [title : {<<"T">>, <<" ">>},
     cta_text : {<<>>, <<" ">>, <<" ", " ">>, <<"C", "l", "i", "c", "k">>,
                 <<" ", "G", "o", " ">>, [i \in 1..51 |-> "x"]},
     cta_link : {<<>>, <<" ">>, <<"h", ":", "/", "/", "x">>,
                 <<" ", "h", ":", "/", "/", "x", " ">>, <<"x">>},
     cta_style : {"primary", "outline", "huge"}]

NextHero == \E value \in HeroValues : HeroClean(value)

SpecHero == Init /\ [][NextHero]_vars

\* C25: hero validation accepts a value exactly when its call-to-action
\* text and link are both present or both absent and the text is not
\* blank: what it accepts holds both or neither, and a value whose other
\* fields are in order and whose text and link it turns down has an error
\* keyed cta_text or cta_link.
HeroCtaBothOrNeither ==
    resp.op = "BaseHeroBlock.clean" =>
        /\ resp.errors = {} =>
              /\ resp.value.cta_text # <<>> <=> resp.value.cta_link # <<>>
              /\ resp.value.cta_text # <<>> => Strip(resp.value.cta_text, {" "}) # <<>>
        /\ (resp.errors # {} /\ StructBlock_clean(resp.given).errors = {}) =>
              resp.errors \cap {"cta_text", "cta_link"} # {}


AuthorUrlListsPost ==
    (resp.op = "blog_author_archive" /\ resp.status = 200) =>
        \A p \in LivePublic(store) :
            get_author_url(store[p]) = resp.extra.author_slug =>
                p \in SeqSet(resp.object_list)


\* ------------------------- a save and a request in flight (SpecRace)

\* post p is saved with the form data d while a request for p builds its
\* context: resp holds the two calls and how far each has come
StartRace(p, d) ==
    /\ resp' = [op |-> "race", id |-> p, self |-> Instance(store, p, d),
                save |-> "called", view |-> "called", related_posts |-> <<>>]
    /\ UNCHANGED <<store, cache, session, today>>

\* BlogPage.save up to super().save(): the cache keys are deleted
SaveDeletes ==
    /\ resp.op = "race" /\ resp.save = "called"
    /\ cache' = save(store, cache, resp.self, today).cache
    /\ resp' = [resp EXCEPT !.save = "deleted"]
    /\ UNCHANGED <<store, session, today>>

\* super().save(): the post is validated and written
SaveWrites ==
    /\ resp.op = "race" /\ resp.save = "deleted"
    /\ store' = save(store, cache, resp.self, today).store
    /\ resp' = [resp EXCEPT !.save = "done"]
    /\ UNCHANGED <<cache, session, today>>

\* get_context up to cache.get(cache_key)
ViewGets ==
    /\ resp.op = "race" /\ resp.view = "called"
    /\ LET self == store[resp.id]
           wants == self.show_related_posts /\ self.tags # {}
           hit == RelatedKey(resp.id) \in DOMAIN cache
       IN resp' = [resp EXCEPT
                      !.view = IF wants /\ ~hit THEN "missed" ELSE "done",
                      !.related_posts = IF wants /\ hit THEN cache[RelatedKey(resp.id)]
                                        ELSE <<>>]
    /\ UNCHANGED <<store, cache, session, today>>

\* cache.set pickles the query set: the query runs
ViewQueries ==
    /\ resp.op = "race" /\ resp.view = "missed"
    /\ resp' = [resp EXCEPT !.view = "queried",
                            !.related_posts = related_query(store, resp.id)]
    /\ UNCHANGED <<store, cache, session, today>>

\* cache.set stores the pickled rows
ViewSets ==
    /\ resp.op = "race" /\ resp.view = "queried"
    /\ cache' = cache_set(cache, RelatedKey(resp.id), resp.related_posts)
    /\ resp' = [resp EXCEPT !.view = "done"]
    /\ UNCHANGED <<store, session, today>>

NextRace ==
    \/ \E p \in (DOMAIN store) \cup {NoneId},
          d \in PostData({HelloWorld}, {<<>>}, {TestAuthor}, {Today0},
                         {{"a"}, {"b"}}, {FALSE}, {TRUE}) :
          CanSave(p) /\ SavePost(p, d)
    \/ \E p \in DOMAIN store,
          d \in PostData({HelloWorld}, {<<>>}, {TestAuthor}, {Today0},
                         {{"a"}, {"b"}}, {FALSE}, {TRUE}) :
          StartRace(p, d)
    \/ SaveDeletes
    \/ SaveWrites
    \/ ViewGets
    \/ ViewQueries
    \/ ViewSets

SpecRace == Init /\ [][NextRace]_vars

\* C27: when a save of post P and a get_context request for P that ran
\* interleaved are both done, the related-posts entry of P is absent or
\* holds what the query gives on the store after the write.
NoStaleRelatedAfterSave ==
    (resp.op = "race" /\ resp.save = "done" /\ resp.view = "done") =>
        \/ RelatedKey(resp.id) \notin DOMAIN cache
        \/ cache[RelatedKey(resp.id)] = related_query(store, resp.id)

====
